---- MODULE Spec2Model ----
(***************************************************************************)
(* Model of the edge client of cli/pkg/edgeclient/client.go: a facade that *)
(* validates its arguments and sequences calls to the model registry and   *)
(* to the pipeline engine.                                                  *)
(*                                                                         *)
(* The registry and the pipeline engine are remote services.  Every remote *)
(* call of an operation is numbered in the order the operation issues it;  *)
(* the input `faults` of an operation is the set of call numbers at which  *)
(* the service answers with a transport / server error (ErrRemote).        *)
(***************************************************************************)
EXTENDS Integers, Sequences, FiniteSets, TLC

VARIABLES
    registry,   \* models, versions and artifacts held by the model registry
    op,         \* the operation the caller invoked, with its arguments ("none": idle)
    pre,        \* the registry as it was when that operation started
    calls,      \* the remote calls that operation issued, in order
    submitted,  \* the PipelineRun objects the pipeline engine accepted from it
    ret         \* what that operation handed back to its caller

vars == <<registry, op, pre, calls, submitted, ret>>

\* ------------------------------------------------------------------ bounds
MaxModels == 2
MaxVersions == 2
MaxArtifacts == 2

\* The longest call sequence of one operation: GetModelImages reads the model
\* list, then the versions of every model, then the artifacts of every version.
MaxCalls == 1 + MaxModels + MaxVersions

\* A remote service fails at most once during one operation: at no call, or at
\* one of the first n calls the operation issues.
FaultsIn(n) == {{}} \cup {{k} : k \in 1..n}

\* ------------------------------------------------------------------ errors
\* A Go error is modelled by its message (the context fmt.Errorf adds) and the
\* sentinel it wraps with %w ("" when it wraps none).  NoError is nil.
NoError == [msg |-> "", cause |-> ""]
Errorf(msg, cause) == [msg |-> msg, cause |-> cause]
ErrorsIs(err, sentinel) == err.cause = sentinel

\* ------------------------------------------------------------------ values
\* A Go value of type interface{} found in a parameters map: its dynamic type
\* and its content.  The content is always written as a sequence of strings:
\*   string        <<s>>
\*   int           <<decimal digits>>
\*   []string      the elements
\*   []interface{} the elements; kind "[]interface{}" when all are strings,
\*                 kind "[]interface{}+int" when one element is not a string
Str(s) == [kind |-> "string", val |-> <<s>>]
IntVal(s) == [kind |-> "int", val |-> <<s>>]
StrSlice(ss) == [kind |-> "[]string", val |-> ss]
IfaceSlice(ss) == [kind |-> "[]interface{}", val |-> ss]
IfaceSliceMixed(ss) == [kind |-> "[]interface{}+int", val |-> ss]

\* A map[string]interface{}: nil, or a function from its keys to values.
NilMap == [nil |-> TRUE, kv |-> [k \in {} |-> Str("")]]
Map(f) == [nil |-> FALSE, kv |-> f]
Keys(m) == DOMAIN m.kv
\* parameters[k] = v; panics on a nil map, so callers guard it
MapSet(m, k, v) ==
    [nil |-> FALSE, kv |-> [x \in (DOMAIN m.kv) \cup {k} |-> IF x = k THEN v ELSE m.kv[x]]]

\* ------------------------------------------------- modelregistry: metadata
\* A registry MetadataValue: the variant that is set and its content.
\* ToMetadataValueMap stores a string as a MetadataStringValue and an int as a
\* MetadataIntValue (whose content the registry keeps as decimal text); it has
\* no variant for a slice and rejects it.
ToMetadataValue(v) ==
    IF v.kind = "string" THEN [metadataType |-> "MetadataStringValue", value |-> v.val[1]]
    ELSE [metadataType |-> "MetadataIntValue", value |-> v.val[1]]

FromMetadataValue(mv) ==
    IF mv.metadataType = "MetadataStringValue" THEN Str(mv.value) ELSE IntVal(mv.value)

ToMetadataValueMap(m) ==
    IF \E k \in Keys(m) : m.kv[k].kind \notin {"string", "int"}
    THEN [err |-> Errorf("unsupported type", "ErrUnsupported"), md |-> [k \in {} |-> ToMetadataValue(Str(""))]]
    ELSE [err |-> NoError, md |-> [k \in Keys(m) |-> ToMetadataValue(m.kv[k])]]

\* The result is always a non-nil map, also for a version without properties.
FromMetadataValueMap(md) ==
    [err |-> NoError, m |-> Map([k \in DOMAIN md |-> FromMetadataValue(md[k])])]

\* ------------------------------------------------- modelregistry: the service
\* The service keeps models, their versions and the versions' artifacts.  A
\* lookup by name answers with the sentinel error of its kind exactly when no
\* such record exists (ErrFindModelVersion, ErrFindArtifact), a lookup by
\* identifier with ErrModelNotFound / ErrVersionNotFound; ErrRemote stands for
\* every other failure of a call.
\* The registry assigns identifiers itself; they are decimal strings.
NewId(rows) == ToString(Len(rows) + 1)

EmptyRegistry == [models |-> <<>>, versions |-> <<>>, artifacts |-> <<>>]

NilModel == [Id |-> "", Name |-> "", Description |-> ""]
NilVersion == [Id |-> "", RegisteredModelId |-> "", Name |-> "",
               CustomProperties |-> [k \in {} |-> ToMetadataValue(Str(""))]]
NilArtifact == [Id |-> "", ModelVersionId |-> "", Name |-> "", Description |-> "",
                Uri |-> "", ModelFormatName |-> "", ModelFormatVersion |-> ""]

ModelsById(reg, id) == SelectSeq(reg.models, LAMBDA m : m.Id = id)
ModelsByName(reg, name) == SelectSeq(reg.models, LAMBDA m : m.Name = name)
VersionsOf(reg, modelId) == SelectSeq(reg.versions, LAMBDA v : v.RegisteredModelId = modelId)
VersionsById(reg, id) == SelectSeq(reg.versions, LAMBDA v : v.Id = id)
VersionsNamed(reg, modelId, name) ==
    SelectSeq(reg.versions, LAMBDA v : v.RegisteredModelId = modelId /\ v.Name = name)
ArtifactsOf(reg, versionId) == SelectSeq(reg.artifacts, LAMBDA a : a.ModelVersionId = versionId)
ArtifactsNamed(reg, versionId, name) ==
    SelectSeq(reg.artifacts, LAMBDA a : a.ModelVersionId = versionId /\ a.Name = name)

\* An operation's context: the registry and pipeline engine as they are now,
\* and the remote calls issued so far.
Faulty(ctx, faults) == (Len(ctx.calls) + 1) \in faults
Logged(ctx, api, err) == [ctx EXCEPT !.calls = Append(@, [api |-> api, err |-> err.cause])]
Failed(ctx, api) == Logged(ctx, api, Errorf(api, "ErrRemote"))
RemoteError(api) == Errorf(api, "ErrRemote")

GetRegisteredModels(ctx, faults) ==
    IF Faulty(ctx, faults)
    THEN [ctx |-> Failed(ctx, "GetRegisteredModels"), err |-> RemoteError("GetRegisteredModels"), models |-> <<>>]
    ELSE [ctx |-> Logged(ctx, "GetRegisteredModels", NoError), err |-> NoError, models |-> ctx.reg.models]

GetRegisteredModelByID(ctx, faults, id) ==
    LET found == ModelsById(ctx.reg, id)
        err == IF Faulty(ctx, faults) THEN RemoteError("GetRegisteredModelByID")
               ELSE IF found = <<>> THEN Errorf("GetRegisteredModelByID", "ErrModelNotFound")
               ELSE NoError
    IN [ctx |-> Logged(ctx, "GetRegisteredModelByID", err), err |-> err,
        model |-> IF err = NoError THEN found[1] ELSE NilModel]

GetModelVersions(ctx, faults, modelId) ==
    LET err == IF Faulty(ctx, faults) THEN RemoteError("GetModelVersions")
               ELSE IF ModelsById(ctx.reg, modelId) = <<>> THEN Errorf("GetModelVersions", "ErrModelNotFound")
               ELSE NoError
    IN [ctx |-> Logged(ctx, "GetModelVersions", err), err |-> err,
        versions |-> IF err = NoError THEN VersionsOf(ctx.reg, modelId) ELSE <<>>]

GetModelVersionArtifacts(ctx, faults, versionId) ==
    LET err == IF Faulty(ctx, faults) THEN RemoteError("GetModelVersionArtifacts")
               ELSE IF VersionsById(ctx.reg, versionId) = <<>> THEN Errorf("GetModelVersionArtifacts", "ErrVersionNotFound")
               ELSE NoError
    IN [ctx |-> Logged(ctx, "GetModelVersionArtifacts", err), err |-> err,
        artifacts |-> IF err = NoError THEN ArtifactsOf(ctx.reg, versionId) ELSE <<>>]

FindModelVersion(ctx, faults, modelId, name) ==
    LET found == VersionsNamed(ctx.reg, modelId, name)
        err == IF Faulty(ctx, faults) THEN RemoteError("FindModelVersion")
               ELSE IF found = <<>> THEN Errorf("FindModelVersion", "ErrFindModelVersion")
               ELSE NoError
    IN [ctx |-> Logged(ctx, "FindModelVersion", err), err |-> err,
        version |-> IF err = NoError THEN found[1] ELSE NilVersion]

CreateModelVersion(ctx, faults, modelId, name, md) ==
    LET v == [Id |-> NewId(ctx.reg.versions), RegisteredModelId |-> modelId, Name |-> name,
              CustomProperties |-> md]
    IN IF Faulty(ctx, faults)
       THEN [ctx |-> Failed(ctx, "CreateModelVersion"), err |-> RemoteError("CreateModelVersion"), version |-> NilVersion]
       ELSE [ctx |-> Logged([ctx EXCEPT !.reg.versions = Append(@, v)], "CreateModelVersion", NoError),
             err |-> NoError, version |-> v]

\* The update replaces the version's custom properties by the ones sent.
UpdateModelVersion(ctx, faults, versionId, md) ==
    LET updated == [i \in DOMAIN ctx.reg.versions |->
                      IF ctx.reg.versions[i].Id = versionId
                      THEN [ctx.reg.versions[i] EXCEPT !.CustomProperties = md]
                      ELSE ctx.reg.versions[i]]
        err == IF Faulty(ctx, faults) THEN RemoteError("UpdateModelVersion")
               ELSE IF VersionsById(ctx.reg, versionId) = <<>> THEN Errorf("UpdateModelVersion", "ErrVersionNotFound")
               ELSE NoError
    IN IF err # NoError
       THEN [ctx |-> Logged(ctx, "UpdateModelVersion", err), err |-> err, version |-> NilVersion]
       ELSE [ctx |-> Logged([ctx EXCEPT !.reg.versions = updated], "UpdateModelVersion", NoError),
             err |-> NoError,
             version |-> SelectSeq(updated, LAMBDA v : v.Id = versionId)[1]]

FindModelVersionArtifact(ctx, faults, versionId, name) ==
    LET found == ArtifactsNamed(ctx.reg, versionId, name)
        err == IF Faulty(ctx, faults) THEN RemoteError("FindModelVersionArtifact")
               ELSE IF found = <<>> THEN Errorf("FindModelVersionArtifact", "ErrFindArtifact")
               ELSE NoError
    IN [ctx |-> Logged(ctx, "FindModelVersionArtifact", err), err |-> err,
        artifact |-> IF err = NoError THEN found[1] ELSE NilArtifact]

CreateModelArtifact(ctx, faults, versionId, name, description, uri, formatName, formatVersion) ==
    LET a == [Id |-> NewId(ctx.reg.artifacts), ModelVersionId |-> versionId, Name |-> name,
              Description |-> description, Uri |-> uri,
              ModelFormatName |-> formatName, ModelFormatVersion |-> formatVersion]
    IN IF Faulty(ctx, faults)
       THEN [ctx |-> Failed(ctx, "CreateModelArtifact"), err |-> RemoteError("CreateModelArtifact"), artifact |-> NilArtifact]
       ELSE [ctx |-> Logged([ctx EXCEPT !.reg.artifacts = Append(@, a)], "CreateModelArtifact", NoError),
             err |-> NoError, artifact |-> a]

\* Registers a model, one version of it and one artifact of that version in a
\* single request; a model of that name must not exist yet.
AutoRegisterModelVersionArtifact(ctx, faults, modelName, modelDescription, versionName, artifactName, uri, formatName, formatVersion, md) ==
    LET m == [Id |-> NewId(ctx.reg.models), Name |-> modelName, Description |-> modelDescription]
        v == [Id |-> NewId(ctx.reg.versions), RegisteredModelId |-> m.Id, Name |-> versionName,
              CustomProperties |-> md]
        a == [Id |-> NewId(ctx.reg.artifacts), ModelVersionId |-> v.Id, Name |-> artifactName,
              Description |-> "", Uri |-> uri,
              ModelFormatName |-> formatName, ModelFormatVersion |-> formatVersion]
        err == IF Faulty(ctx, faults) THEN RemoteError("AutoRegisterModelVersionArtifact")
               ELSE IF ModelsByName(ctx.reg, modelName) # <<>>
                    THEN Errorf("AutoRegisterModelVersionArtifact", "ErrModelExists")
               ELSE NoError
        reg == [models |-> Append(ctx.reg.models, m), versions |-> Append(ctx.reg.versions, v),
                artifacts |-> Append(ctx.reg.artifacts, a)]
    IN IF err # NoError
       THEN [ctx |-> Logged(ctx, "AutoRegisterModelVersionArtifact", err), err |-> err,
             model |-> NilModel, version |-> NilVersion, artifact |-> NilArtifact]
       ELSE [ctx |-> Logged([ctx EXCEPT !.reg = reg], "AutoRegisterModelVersionArtifact", NoError),
             err |-> NoError, model |-> m, version |-> v, artifact |-> a]

\* ------------------------------------------------- edgeclient: local types
\* A Go slice result: nil, or its items.
NilSlice == [nil |-> TRUE, items |-> <<>>]
Slice(items) == [nil |-> FALSE, items |-> items]

Model(m) == [ID |-> m.Id, Name |-> m.Name, Description |-> m.Description]

NilModelImage == [nil |-> TRUE, ModelID |-> "", Name |-> "", Description |-> "",
                  Version |-> "", BuildParams |-> NilMap, URI |-> ""]
ModelImage(m, v, params, uri) ==
    [nil |-> FALSE, ModelID |-> m.Id, Name |-> m.Name, Description |-> m.Description,
     Version |-> v.Name, BuildParams |-> params, URI |-> uri]

\* A name the engine generates is the GenerateName prefix and a suffix.
NilPipelineRun == [nil |-> TRUE, Name |-> <<>>, Namespace |-> ""]
PipelineRun(created) == [nil |-> FALSE, Name |-> created.Name, Namespace |-> created.Namespace]

\* What an operation hands back: its error, its result (the field of its result
\* type; the others stay at their zero value), or a panic that unwinds the caller.
Return(err) == [panicked |-> FALSE, err |-> err, models |-> NilSlice, images |-> NilSlice,
                image |-> NilModelImage, params |-> NilMap, run |-> NilPipelineRun]
Panic == [Return(NoError) EXCEPT !.panicked = TRUE]

\* ------------------------------------------------- edgeclient: GetModels
GetModels(ctx, faults) ==
    LET r == GetRegisteredModels(ctx, faults)
    IN IF r.err # NoError
       THEN [ctx |-> r.ctx, ret |-> Return(Errorf("failed to get models", r.err.cause))]
       ELSE [ctx |-> r.ctx,
             ret |-> [Return(NoError) EXCEPT
                        !.models = Slice([i \in DOMAIN r.models |-> Model(r.models[i])])]]

\* ------------------------------------------------- edgeclient: AddNewModelWithImage
AddNewModelWithImage(ctx, faults, modelName, modelDescription, modelVersion, uri, parameters) ==
    IF modelName = "" \/ modelDescription = "" \/ modelVersion = ""
    THEN [ctx |-> ctx,
          ret |-> Return(Errorf("model name, description, version, and URI are required", ""))]
    ELSE IF parameters.nil
    THEN \* assignment to an entry of a nil map
         [ctx |-> ctx, ret |-> Panic]
    ELSE
    LET md == ToMetadataValueMap(MapSet(parameters, "edgeCompatible", Str("true")))
        r == AutoRegisterModelVersionArtifact(ctx, faults, modelName, modelDescription,
                 modelVersion, modelName, uri, "ContainerImage", "", md.md)
    IN IF md.err # NoError
       THEN [ctx |-> ctx, ret |-> Return(Errorf("failed to add model image", md.err.cause))]
       ELSE IF r.err # NoError
       THEN [ctx |-> r.ctx, ret |-> Return(Errorf("failed to add model image", r.err.cause))]
       ELSE [ctx |-> r.ctx,
             ret |-> [Return(NoError) EXCEPT
                        !.image = ModelImage(r.model, r.version, NilMap, r.artifact.Uri)]]

\* ------------------------------------------------- edgeclient: GetModelImages
\* Mutant of ImagesOfVersion: a version without artifacts yields no image.
ImagesOfVersionWithArtifacts(m, v, params, artifacts) ==
    [i \in DOMAIN artifacts |-> ModelImage(m, v, params, artifacts[i].Uri)]

\* The ModelImages of one version: one per artifact, or one without URI.
ImagesOfVersion(m, v, params, artifacts) ==
    IF Len(artifacts) > 0
    THEN [i \in DOMAIN artifacts |-> ModelImage(m, v, params, artifacts[i].Uri)]
    ELSE <<ModelImage(m, v, params, "")>>

\* The loop over the versions of model m, from version j on.  acc carries the
\* context, the images collected and the error that ended the loop, if any.
RECURSIVE VersionsLoop(_, _, _, _, _)
VersionsLoop(acc, faults, m, versions, j) ==
    IF j > Len(versions) THEN acc
    ELSE
    LET v == versions[j]
        r == GetModelVersionArtifacts(acc.ctx, faults, v.Id)
        params == FromMetadataValueMap(v.CustomProperties)
    IN IF r.err # NoError
       THEN [acc EXCEPT !.ctx = r.ctx,
                        !.err = IF ErrorsIs(r.err, "ErrVersionNotFound")
                                THEN Errorf("failed to get model images: can't find model version", "")
                                ELSE Errorf("failed to get model images", r.err.cause)]
       ELSE IF params.err # NoError
       THEN [acc EXCEPT !.ctx = r.ctx, !.err = Errorf("failed to get model images", params.err.cause)]
       ELSE VersionsLoop([acc EXCEPT !.ctx = r.ctx,
                                     !.images = @ \o ImagesOfVersion(m, v, params.m, r.artifacts)],
                         faults, m, versions, j + 1)

\* The loop over the models, from model i on.
RECURSIVE ModelsLoop(_, _, _, _)
ModelsLoop(acc, faults, models, i) ==
    IF i > Len(models) THEN acc
    ELSE
    LET m == models[i]
        r == GetModelVersions(acc.ctx, faults, m.Id)
        inner == VersionsLoop([acc EXCEPT !.ctx = r.ctx], faults, m, r.versions, 1)
    IN IF r.err # NoError
       THEN [acc EXCEPT !.ctx = r.ctx,
                        !.err = IF ErrorsIs(r.err, "ErrModelNotFound")
                                THEN Errorf("failed to get model images: can't find model", "")
                                ELSE Errorf("failed to get model images", r.err.cause)]
       ELSE IF inner.err # NoError THEN inner
       ELSE ModelsLoop(inner, faults, models, i + 1)

GetModelImages(ctx, faults) ==
    LET r == GetRegisteredModels(ctx, faults)
        loop == ModelsLoop([ctx |-> r.ctx, images |-> <<>>, err |-> NoError], faults, r.models, 1)
    IN IF r.err # NoError
       THEN [ctx |-> r.ctx, ret |-> Return(Errorf("failed to get model images", r.err.cause))]
       ELSE IF loop.err # NoError
       THEN [ctx |-> loop.ctx, ret |-> Return(loop.err)]
       ELSE [ctx |-> loop.ctx, ret |-> [Return(NoError) EXCEPT !.images = Slice(loop.images)]]

\* ------------------------------------------------- edgeclient: UpdateModelImage
\* Mutant of ensureVersionIsInModelRegistry: a version that exists is never
\* updated, whatever parameters are given.
ensureVersionWithoutUpdate(ctx, faults, registeredModelID, modelVersionName, parameters) ==
    LET wrap(c, cause) == [ctx |-> c, version |-> NilVersion, md |-> NilMap,
                           err |-> Errorf("failed to ensure version is in model registry", cause)]
        f == FindModelVersion(ctx, faults, registeredModelID, modelVersionName)
        md == ToMetadataValueMap(MapSet(parameters, "edgeCompatible", Str("true")))
        created == CreateModelVersion(f.ctx, faults, registeredModelID, modelVersionName, md.md)
        finish(c, v) == [ctx |-> c, version |-> v, err |-> NoError,
                         md |-> FromMetadataValueMap(v.CustomProperties).m]
    IN IF f.err # NoError
       THEN IF ErrorsIs(f.err, "ErrFindModelVersion")
            THEN IF parameters.nil
                 THEN [ctx |-> f.ctx, version |-> NilVersion, md |-> NilMap,
                       err |-> Errorf("model version not found and no parameters provided", "")]
                 ELSE IF md.err # NoError THEN wrap(f.ctx, md.err.cause)
                 ELSE IF created.err # NoError THEN wrap(created.ctx, created.err.cause)
                 ELSE finish(created.ctx, created.version)
            ELSE wrap(f.ctx, f.err.cause)
       ELSE finish(f.ctx, f.version)

ensureVersionIsInModelRegistry(ctx, faults, registeredModelID, modelVersionName, parameters) ==
    LET wrap(c, cause) == [ctx |-> c, version |-> NilVersion, md |-> NilMap,
                           err |-> Errorf("failed to ensure version is in model registry", cause)]
        f == FindModelVersion(ctx, faults, registeredModelID, modelVersionName)
        withFlag == MapSet(parameters, "edgeCompatible", Str("true"))
        md == ToMetadataValueMap(withFlag)
        created == CreateModelVersion(f.ctx, faults, registeredModelID, modelVersionName, md.md)
        updated == UpdateModelVersion(f.ctx, faults, f.version.Id, md.md)
        finish(c, v) ==
            LET back == FromMetadataValueMap(v.CustomProperties)
            IN IF back.err # NoError THEN wrap(c, back.err.cause)
               ELSE [ctx |-> c, version |-> v, md |-> back.m, err |-> NoError]
    IN IF f.err # NoError
       THEN IF ErrorsIs(f.err, "ErrFindModelVersion")
            THEN IF parameters.nil
                 THEN [ctx |-> f.ctx, version |-> NilVersion, md |-> NilMap,
                       err |-> Errorf("model version not found and no parameters provided", "")]
                 ELSE IF md.err # NoError THEN wrap(f.ctx, md.err.cause)
                 ELSE IF created.err # NoError THEN wrap(created.ctx, created.err.cause)
                 ELSE finish(created.ctx, created.version)
            ELSE wrap(f.ctx, f.err.cause)
       ELSE IF ~parameters.nil
       THEN IF md.err # NoError THEN wrap(f.ctx, md.err.cause)
            ELSE IF updated.err # NoError THEN wrap(updated.ctx, updated.err.cause)
            ELSE finish(updated.ctx, updated.version)
       ELSE finish(f.ctx, f.version)

\* Mutants of ensureArtifactIsInModelRegistry.
\* A failure of the create call is dropped.
ensureArtifactDroppingCreateError(ctx, faults, modelVersionID, artifactName, description, modelFormatName, modelFormatVersion) ==
    LET f == FindModelVersionArtifact(ctx, faults, modelVersionID, artifactName)
        created == CreateModelArtifact(f.ctx, faults, modelVersionID, artifactName, description,
                                       "", modelFormatName, modelFormatVersion)
    IN IF f.err # NoError
       THEN IF ErrorsIs(f.err, "ErrFindArtifact")
            THEN [ctx |-> created.ctx, err |-> NoError]
            ELSE [ctx |-> f.ctx,
                  err |-> Errorf("failed to ensure artifact is in model registry", f.err.cause)]
       ELSE [ctx |-> f.ctx, err |-> NoError]

\* Any failure of the lookup is taken for "not found".
ensureArtifactCreatingOnAnyError(ctx, faults, modelVersionID, artifactName, description, modelFormatName, modelFormatVersion) ==
    LET f == FindModelVersionArtifact(ctx, faults, modelVersionID, artifactName)
        created == CreateModelArtifact(f.ctx, faults, modelVersionID, artifactName, description,
                                       "", modelFormatName, modelFormatVersion)
    IN IF f.err # NoError
       THEN IF created.err # NoError
            THEN [ctx |-> created.ctx,
                  err |-> Errorf("failed to ensure artifact is in model registry", created.err.cause)]
            ELSE [ctx |-> created.ctx, err |-> NoError]
       ELSE [ctx |-> f.ctx, err |-> NoError]

\* The artifact is created without looking for it first.
ensureArtifactAlwaysCreating(ctx, faults, modelVersionID, artifactName, description, modelFormatName, modelFormatVersion) ==
    LET created == CreateModelArtifact(ctx, faults, modelVersionID, artifactName, description,
                                       "", modelFormatName, modelFormatVersion)
    IN IF created.err # NoError
       THEN [ctx |-> created.ctx,
             err |-> Errorf("failed to ensure artifact is in model registry", created.err.cause)]
       ELSE [ctx |-> created.ctx, err |-> NoError]

ensureArtifactIsInModelRegistry(ctx, faults, modelVersionID, artifactName, description, modelFormatName, modelFormatVersion) ==
    LET wrap(c, cause) == [ctx |-> c,
                           err |-> Errorf("failed to ensure artifact is in model registry", cause)]
        f == FindModelVersionArtifact(ctx, faults, modelVersionID, artifactName)
        created == CreateModelArtifact(f.ctx, faults, modelVersionID, artifactName, description,
                                       "", modelFormatName, modelFormatVersion)
    IN IF f.err # NoError
       THEN IF ErrorsIs(f.err, "ErrFindArtifact")
            THEN IF created.err # NoError THEN wrap(created.ctx, created.err.cause)
                 ELSE [ctx |-> created.ctx, err |-> NoError]
            ELSE wrap(f.ctx, f.err.cause)
       ELSE IF f.artifact = NilArtifact
       THEN wrap(f.ctx, "")
       ELSE [ctx |-> f.ctx, err |-> NoError]

ensureResourcesAreInModelRegistry(ctx, faults, registeredModelID, modelVersionName, parameters) ==
    LET wrap(c, cause) == [ctx |-> c,
            ret |-> Return(Errorf("failed to ensure resources are in model registry", cause))]
        g == GetRegisteredModelByID(ctx, faults, registeredModelID)
        v == ensureVersionIsInModelRegistry(g.ctx, faults, registeredModelID, modelVersionName,
                                            parameters)
        a == ensureArtifactIsInModelRegistry(v.ctx, faults, v.version.Id, g.model.Name,
                                             g.model.Description, "ContainerImage", "")
    IN IF g.err # NoError
       THEN IF ErrorsIs(g.err, "ErrModelNotFound")
            THEN [ctx |-> g.ctx, ret |-> Return(Errorf("model not found.", g.err.cause))]
            ELSE wrap(g.ctx, g.err.cause)
       ELSE IF v.err # NoError THEN wrap(v.ctx, v.err.cause)
       ELSE IF a.err # NoError THEN wrap(a.ctx, a.err.cause)
       ELSE [ctx |-> a.ctx, ret |-> [Return(NoError) EXCEPT !.params = v.md]]

UpdateModelImage(ctx, faults, registeredModelID, modelVersionName, parameters) ==
    IF registeredModelID = "" \/ modelVersionName = ""
    THEN [ctx |-> ctx, ret |-> Return(Errorf("registered model ID and model version name required", ""))]
    ELSE ensureResourcesAreInModelRegistry(ctx, faults, registeredModelID, modelVersionName,
                                           parameters)

\* ------------------------------------------------- edgeclient: CreatePipelineRun
\* A tekton ParamValue: a string or an array of strings.
StringParam(s) == [Type |-> "string", StringVal |-> s, ArrayVal |-> <<>>]
ArrayParam(ss) == [Type |-> "array", StringVal |-> "", ArrayVal |-> ss]
Param(name, value) == [Name |-> name, Value |-> value]

\* The tekton Params of a run: model-name and model-version lead; the entries
\* of the parameters map follow in the order Go iterates the map, which is not
\* specified, so they are kept as the set of entries.
NoParams == [lead |-> <<>>, rest |-> {}]

Supported(v) == v.kind \in {"string", "[]interface{}", "[]string"}

toTektonParams(modelName, modelVersion, parameters) ==
    IF \E k \in Keys(parameters) : ~Supported(parameters.kv[k])
    THEN [err |-> Errorf("paramater has unsupported type", ""), params |-> NoParams]
    ELSE [err |-> NoError,
          params |-> [lead |-> <<Param("model-name", StringParam(modelName)),
                                 Param("model-version", StringParam(modelVersion))>>,
                      rest |-> {Param(k, IF parameters.kv[k].kind = "string"
                                         THEN StringParam(parameters.kv[k].val[1])
                                         ELSE ArrayParam(parameters.kv[k].val))
                                : k \in Keys(parameters)}]]

newPipelineRunObject(modelName, namespace, params, s3SecretName, testDataConfigMapName) ==
    [Namespace |-> namespace,
     GenerateName |-> <<"aiedge-e2e-", modelName, "-">>,
     Labels |-> [pipeline |-> "aiedge-e2e", modelName |-> modelName],
     ServiceAccountName |-> "pipeline",
     Params |-> params,
     PipelineRef |-> "aiedge-e2e",
     Workspaces |-> <<[Name |-> "build-workspace-pv", Source |-> "VolumeClaimTemplate", Ref |-> "1Gi"],
                      [Name |-> "s3-secret", Source |-> "Secret", Ref |-> s3SecretName],
                      [Name |-> "test-data", Source |-> "ConfigMap", Ref |-> testDataConfigMapName]>>]

\* clientcmd.BuildConfigFromFlags("", kubeConfig): the configuration of the file
\* named, or nil when none can be loaded (no such file, no valid content, or an
\* empty name outside a cluster).
KubeConfigs == {"", "kubeconfig", "unreadable"}
BuildConfigFromFlags(kubeConfig) == kubeConfig = "kubeconfig"

\* The pipeline engine accepts the object and names it: GenerateName and a
\* suffix of its own choice.
CreateRun(ctx, faults, namespace, pipelineRun) ==
    LET created == [pipelineRun EXCEPT !.Namespace = namespace]
        named == [Name |-> Append(pipelineRun.GenerateName, "x7k2p"),
                  Namespace |-> namespace, Object |-> created]
    IN IF Faulty(ctx, faults)
       THEN [ctx |-> Failed(ctx, "PipelineRuns.Create"), err |-> RemoteError("PipelineRuns.Create"),
             created |-> [Name |-> <<>>, Namespace |-> "", Object |-> created]]
       ELSE [ctx |-> Logged([ctx EXCEPT !.submitted = Append(@, named)],
                            "PipelineRuns.Create", NoError),
             err |-> NoError, created |-> named]

\* Mutant of CreatePipelineRun: testDataConfigMapName is taken as it comes,
\* without the check that it is a string.
CreatePipelineRunUncheckedTestData(ctx, faults, modelName, modelVersion, namespace, kubeConfig, parameters) ==
    LET fail(msg, cause) == [ctx |-> ctx, ret |-> Return(Errorf(msg, cause))]
        has(k) == k \in Keys(parameters)
        params == toTektonParams(modelName, modelVersion, parameters)
        pipelineRun == newPipelineRunObject(modelName, namespace, params.params,
                                            parameters.kv["s3SecretName"].val[1],
                                            parameters.kv["testDataConfigMapName"].val[1])
        r == CreateRun(ctx, faults, namespace, pipelineRun)
    IN IF ~has("s3SecretName") THEN fail("s3SecretName pipeline parameter is required", "")
       ELSE IF parameters.kv["s3SecretName"].kind # "string"
       THEN fail("s3SecretName pipeline parameter must be a string", "")
       ELSE IF ~has("testDataConfigMapName") THEN fail("testDataConfigMapName pipeline parameter is required", "")
       ELSE IF params.err # NoError THEN fail("failed to convert parameters to tekton params", params.err.cause)
       ELSE IF ~BuildConfigFromFlags(kubeConfig) THEN [ctx |-> ctx, ret |-> Panic]
       ELSE IF r.err # NoError
       THEN [ctx |-> r.ctx, ret |-> Return(Errorf("failed to create pipeline run", r.err.cause))]
       ELSE [ctx |-> r.ctx, ret |-> [Return(NoError) EXCEPT !.run = PipelineRun(r.created)]]

CreatePipelineRun(ctx, faults, modelName, modelVersion, namespace, kubeConfig, parameters) ==
    LET fail(msg, cause) == [ctx |-> ctx, ret |-> Return(Errorf(msg, cause))]
        has(k) == k \in Keys(parameters)
        isString(k) == parameters.kv[k].kind = "string"
        s3SecretName == parameters.kv["s3SecretName"].val[1]
        testDataConfigMapName == parameters.kv["testDataConfigMapName"].val[1]
        params == toTektonParams(modelName, modelVersion, parameters)
        pipelineRun == newPipelineRunObject(modelName, namespace, params.params,
                                            s3SecretName, testDataConfigMapName)
        r == CreateRun(ctx, faults, namespace, pipelineRun)
    IN IF ~has("s3SecretName") THEN fail("s3SecretName pipeline parameter is required", "")
       ELSE IF ~isString("s3SecretName") THEN fail("s3SecretName pipeline parameter must be a string", "")
       ELSE IF ~has("testDataConfigMapName") THEN fail("testDataConfigMapName pipeline parameter is required", "")
       ELSE IF ~isString("testDataConfigMapName") THEN fail("testDataConfigMapName pipeline parameter must be a string", "")
       ELSE IF params.err # NoError THEN fail("failed to convert parameters to tekton params", params.err.cause)
       ELSE IF ~BuildConfigFromFlags(kubeConfig)
       THEN \* both errors are dropped; NewForConfig dereferences the nil config
            [ctx |-> ctx, ret |-> Panic]
       ELSE IF r.err # NoError
       THEN [ctx |-> r.ctx, ret |-> Return(Errorf("failed to create pipeline run", r.err.cause))]
       ELSE [ctx |-> r.ctx, ret |-> [Return(NoError) EXCEPT !.run = PipelineRun(r.created)]]

\* ------------------------------------------------- edgeclient: BuildModelImage
\* Mutant of BuildModelImage: the stored properties are used even when
\* parameters are given.
BuildModelImageFromStored(ctx, faults, modelID, modelVersion, namespace, kubeConfig, parameters) ==
    LET fail(c, cause) == [ctx |-> c, ret |-> Return(Errorf("failed to build model image", cause))]
        m == GetRegisteredModelByID(ctx, faults, modelID)
        v == FindModelVersion(m.ctx, faults, modelID, modelVersion)
        stored == FromMetadataValueMap(v.version.CustomProperties)
    IN IF modelID = "" \/ modelVersion = "" \/ namespace = "" \/ kubeConfig = ""
       THEN [ctx |-> ctx,
             ret |-> Return(Errorf("model ID, model version, namespace, and kubeconfig are required", ""))]
       ELSE IF m.err # NoError THEN fail(m.ctx, m.err.cause)
       ELSE IF v.err # NoError THEN fail(v.ctx, v.err.cause)
       ELSE CreatePipelineRun(v.ctx, faults, m.model.Name, modelVersion, namespace, kubeConfig,
                              stored.m)

BuildModelImage(ctx, faults, modelID, modelVersion, namespace, kubeConfig, parameters) ==
    LET fail(c, cause) == [ctx |-> c, ret |-> Return(Errorf("failed to build model image", cause))]
        m == GetRegisteredModelByID(ctx, faults, modelID)
        v == FindModelVersion(m.ctx, faults, modelID, modelVersion)
        stored == FromMetadataValueMap(v.version.CustomProperties)
    IN IF modelID = "" \/ modelVersion = "" \/ namespace = "" \/ kubeConfig = ""
       THEN [ctx |-> ctx,
             ret |-> Return(Errorf("model ID, model version, namespace, and kubeconfig are required", ""))]
       ELSE IF m.err # NoError THEN fail(m.ctx, m.err.cause)
       ELSE IF v.err # NoError THEN fail(v.ctx, v.err.cause)
       ELSE IF parameters.nil /\ stored.err # NoError THEN fail(v.ctx, stored.err.cause)
       ELSE CreatePipelineRun(v.ctx, faults, m.model.Name, modelVersion, namespace, kubeConfig,
                              IF parameters.nil THEN stored.m ELSE parameters)

\* ------------------------------------------------- inputs
ModelNames == {"", "tf", "onnx"}
Descriptions == {"", "housing"}
VersionNames == {"", "v1", "v2"}
URIs == {"", "oci://tf"}
Namespaces == {"", "edge"}
ModelIDs == {""} \cup {ToString(i) : i \in 1..(MaxModels + 1)}

S3 == "s3SecretName"
TD == "testDataConfigMapName"
Required(s3, td) == (S3 :> Str(s3)) @@ (TD :> Str(td))

\* The parameters maps callers pass: nil, empty, complete, complete with a
\* further entry of each dynamic type, and incomplete or ill-typed ones.
ParameterMaps ==
    {NilMap,
     Map([k \in {} |-> Str("")]),
     Map(Required("creds", "data")),
     Map(Required("creds2", "data2")),
     Map(Required("creds", "data") @@ ("tags" :> StrSlice(<<"a", "b">>))),
     Map(Required("creds", "data") @@ ("tags" :> IfaceSlice(<<"a">>))),
     Map(Required("creds", "data") @@ ("tags" :> IfaceSliceMixed(<<"a", "1">>))),
     Map(Required("creds", "data") @@ ("retries" :> IntVal("3"))),
     Map(Required("creds", "data") @@ ("model-name" :> Str("other"))),
     Map(S3 :> Str("creds")),
     Map(TD :> Str("data")),
     Map((S3 :> IntVal("1")) @@ (TD :> Str("data"))),
     Map((S3 :> Str("creds")) @@ (TD :> StrSlice(<<"data">>)))}

\* What callers store with a version: nothing given, the required build
\* parameters, and a map the registry has no representation for.
RegistryParameterMaps ==
    {NilMap,
     Map(Required("creds2", "data2")),
     Map(Required("creds", "data") @@ ("tags" :> StrSlice(<<"a", "b">>)))}

\* What callers of BuildModelImage pass to override the stored properties.
BuildParameterMaps ==
    {NilMap,
     Map(Required("creds2", "data2")),
     Map(S3 :> Str("creds")),
     Map(Required("creds", "data") @@ ("tags" :> IfaceSliceMixed(<<"a", "1">>)))}

\* ------------------------------------------------- initial registries
\* The registry is shared with other tools, so an operation may find records
\* this client did not write: a model without versions, a version without
\* properties or artifacts, a version with several artifacts.
TfModel == [Id |-> "1", Name |-> "tf", Description |-> "housing"]
VersionWith(id, name, md) ==
    [Id |-> id, RegisteredModelId |-> "1", Name |-> name, CustomProperties |-> md]
ArtifactWith(id, versionId, name, uri) ==
    [Id |-> id, ModelVersionId |-> versionId, Name |-> name, Description |-> "housing",
     Uri |-> uri, ModelFormatName |-> "ContainerImage", ModelFormatVersion |-> ""]
PlainProperties == ToMetadataValueMap(Map(Required("creds", "data"))).md
EdgeProperties ==
    ToMetadataValueMap(Map(Required("creds", "data") @@ ("edgeCompatible" :> Str("true")))).md
NoProperties == ToMetadataValueMap(Map([k \in {} |-> Str("")])).md

InitialRegistries ==
    {EmptyRegistry,
     [models |-> <<TfModel>>, versions |-> <<>>, artifacts |-> <<>>],
     [models |-> <<TfModel>>, versions |-> <<VersionWith("1", "v1", NoProperties)>>,
      artifacts |-> <<>>],
     [models |-> <<TfModel>>, versions |-> <<VersionWith("1", "v1", PlainProperties)>>,
      artifacts |-> <<ArtifactWith("1", "1", "sidecar", "oci://sidecar"),
                      ArtifactWith("2", "1", "tf", "oci://tf")>>],
     [models |-> <<TfModel>>, versions |-> <<VersionWith("1", "v1", EdgeProperties)>>,
      artifacts |-> <<ArtifactWith("1", "1", "tf", "oci://tf")>>]}

\* ------------------------------------------------- the state machine
Invocation(name) ==
    [name |-> name, modelName |-> "", modelDescription |-> "", modelVersion |-> "", uri |-> "",
     modelID |-> "", namespace |-> "", kubeConfig |-> "", parameters |-> NilMap]

Init ==
    /\ registry \in InitialRegistries
    /\ op = Invocation("none")
    /\ pre = registry
    /\ calls = <<>>
    /\ submitted = <<>>
    /\ ret = Return(NoError)

\* The context an operation starts in.
Ctx == [reg |-> registry, calls |-> <<>>, submitted |-> <<>>]

\* The operation ran to its end (return or panic) and left the services as r.ctx.
Finish(invocation, r) ==
    /\ Len(r.ctx.reg.models) <= MaxModels
    /\ Len(r.ctx.reg.versions) <= MaxVersions
    /\ Len(r.ctx.reg.artifacts) <= MaxArtifacts
    /\ registry' = r.ctx.reg
    /\ op' = invocation
    /\ pre' = registry
    /\ calls' = r.ctx.calls
    /\ submitted' = r.ctx.submitted
    /\ ret' = r.ret

CallGetModels ==
    /\ op.name = "none"
    /\ \E faults \in FaultsIn(1) :
        Finish(Invocation("GetModels"), GetModels(Ctx, faults))

CallGetModelImages ==
    /\ op.name = "none"
    /\ \E faults \in FaultsIn(MaxCalls) :
        Finish(Invocation("GetModelImages"), GetModelImages(Ctx, faults))

CallAddNewModelWithImage ==
    /\ op.name = "none"
    /\ \E faults \in FaultsIn(1), modelName \in ModelNames, modelDescription \in Descriptions,
          modelVersion \in VersionNames, uri \in URIs, parameters \in RegistryParameterMaps :
        Finish([Invocation("AddNewModelWithImage") EXCEPT
                    !.modelName = modelName, !.modelDescription = modelDescription,
                    !.modelVersion = modelVersion, !.uri = uri, !.parameters = parameters],
               AddNewModelWithImage(Ctx, faults, modelName, modelDescription, modelVersion, uri,
                                    parameters))

CallUpdateModelImage ==
    /\ op.name = "none"
    /\ \E faults \in FaultsIn(5), registeredModelID \in ModelIDs,
          modelVersionName \in VersionNames, parameters \in RegistryParameterMaps :
        Finish([Invocation("UpdateModelImage") EXCEPT
                    !.modelID = registeredModelID, !.modelVersion = modelVersionName,
                    !.parameters = parameters],
               UpdateModelImage(Ctx, faults, registeredModelID, modelVersionName, parameters))

CallBuildModelImage ==
    /\ op.name = "none"
    /\ \E faults \in FaultsIn(3), modelID \in ModelIDs, modelVersion \in VersionNames,
          namespace \in Namespaces, kubeConfig \in KubeConfigs,
          parameters \in BuildParameterMaps :
        Finish([Invocation("BuildModelImage") EXCEPT
                    !.modelID = modelID, !.modelVersion = modelVersion, !.namespace = namespace,
                    !.kubeConfig = kubeConfig, !.parameters = parameters],
               BuildModelImage(Ctx, faults, modelID, modelVersion, namespace, kubeConfig,
                               parameters))

CallCreatePipelineRun ==
    /\ op.name = "none"
    /\ \E faults \in FaultsIn(1), modelName \in {"", "tf"}, modelVersion \in {"v1"},
          namespace \in Namespaces, kubeConfig \in KubeConfigs, parameters \in ParameterMaps :
        Finish([Invocation("CreatePipelineRun") EXCEPT
                    !.modelName = modelName, !.modelVersion = modelVersion,
                    !.namespace = namespace, !.kubeConfig = kubeConfig,
                    !.parameters = parameters],
               CreatePipelineRun(Ctx, faults, modelName, modelVersion, namespace, kubeConfig,
                                 parameters))

\* The caller takes the result; the Client keeps nothing of the invocation.
CallerContinues ==
    /\ op.name # "none"
    /\ op' = Invocation("none")
    /\ pre' = registry
    /\ calls' = <<>>
    /\ submitted' = <<>>
    /\ ret' = Return(NoError)
    /\ UNCHANGED registry

Next ==
    \/ CallGetModels
    \/ CallGetModelImages
    \/ CallAddNewModelWithImage
    \/ CallUpdateModelImage
    \/ CallBuildModelImage
    \/ CallCreatePipelineRun
    \/ CallerContinues

Spec == Init /\ [][Next]_vars

\* ================================================== properties
Done(name) == op.name = name
Succeeded == ~ret.panicked /\ ret.err = NoError
ReturnedError == ~ret.panicked /\ ret.err # NoError
NoResult == /\ ret.models.nil /\ ret.images.nil /\ ret.image.nil
            /\ ret.params.nil /\ ret.run.nil
Issued(api) == \E i \in DOMAIN calls : calls[i].api = api
IssuedOk(api) == \E i \in DOMAIN calls : calls[i].api = api /\ calls[i].err = ""
CountOk(apis) == Cardinality({i \in DOMAIN calls : calls[i].api \in apis /\ calls[i].err = ""})

\* The answer "no such version" / "no such artifact" with which
\* UpdateModelImage selects its create branch.
SelectsCreate(c) ==
    /\ op.name = "UpdateModelImage"
    /\ \/ c.api = "FindModelVersion" /\ c.err = "ErrFindModelVersion"
       \/ c.api = "FindModelVersionArtifact" /\ c.err = "ErrFindArtifact"

\* C1 as stated: in every operation, when any remote call returned an error,
\* the operation returns a non-nil error and no result.
C1_AnyFailedCallIsReturned ==
    (op.name # "none" /\ \E i \in DOMAIN calls : calls[i].err # "")
        => (ReturnedError /\ NoResult)

\* C1 amended: in every operation, when a remote call returned an error other
\* than the not-found answer that selects UpdateModelImage's create branch,
\* the operation returns a non-nil error and no result.
C1_FailedCallIsReturned ==
    \A i \in DOMAIN calls :
        (op.name # "none" /\ calls[i].err # "" /\ ~SelectsCreate(calls[i]))
            => (ReturnedError /\ NoResult)

\* A remote write failed in the middle of UpdateModelImage and the caller got the error.
C1_Witness ==
    /\ Done("UpdateModelImage")
    /\ Len(calls) = 5
    /\ calls[5] = [api |-> "CreateModelArtifact", err |-> "ErrRemote"]
    /\ ReturnedError /\ ErrorsIs(ret.err, "ErrRemote")

\* C2: within one operation a call that failed (other than with the not-found
\* answer that selects the create branch) is the last call issued; a not-found
\* answer is followed by the matching create only; and every record that
\* existed or was written before the failure is still in the registry.
C2_NoCallAfterFailure ==
    op.name # "none" =>
        /\ \A i \in DOMAIN calls :
              (calls[i].err # "" /\ i < Len(calls)) =>
                  /\ SelectsCreate(calls[i])
                  /\ calls[i + 1].api = (IF calls[i].api = "FindModelVersion"
                                         THEN "CreateModelVersion" ELSE "CreateModelArtifact")
        /\ Len(registry.models) = Len(pre.models) + CountOk({"AutoRegisterModelVersionArtifact"})
        /\ Len(registry.versions) = Len(pre.versions)
              + CountOk({"AutoRegisterModelVersionArtifact", "CreateModelVersion"})
        /\ Len(registry.artifacts) = Len(pre.artifacts)
              + CountOk({"AutoRegisterModelVersionArtifact", "CreateModelArtifact"})
        /\ SubSeq(registry.models, 1, Len(pre.models)) = pre.models
        /\ SubSeq(registry.artifacts, 1, Len(pre.artifacts)) = pre.artifacts
        /\ \A j \in DOMAIN pre.versions :
              /\ registry.versions[j].Id = pre.versions[j].Id
              /\ registry.versions[j].Name = pre.versions[j].Name
              /\ (~IssuedOk("UpdateModelVersion") => registry.versions[j] = pre.versions[j])

\* UpdateModelImage created the version, then the artifact lookup failed: the
\* operation stopped there and the new version stayed.
C2_Witness ==
    /\ Done("UpdateModelImage")
    /\ Len(calls) = 4
    /\ calls[3] = [api |-> "CreateModelVersion", err |-> ""]
    /\ calls[4] = [api |-> "FindModelVersionArtifact", err |-> "ErrRemote"]
    /\ ReturnedError
    /\ Len(registry.versions) = Len(pre.versions) + 1

\* What UpdateModelImage's arguments name, in registry reg.
NamedVersions(reg) == VersionsNamed(reg, op.modelID, op.modelVersion)
NamedModel(reg) == ModelsById(reg, op.modelID)[1]
NamedArtifacts(reg) ==
    IF NamedVersions(reg) = <<>> THEN <<>>
    ELSE ArtifactsNamed(reg, NamedVersions(reg)[1].Id, NamedModel(reg).Name)

\* C3: when UpdateModelImage returns without error, the registry holds a
\* version of that name under the model and an artifact named after the model
\* under that version; what existed before was not created again.
C3_UpdateCreatesWhatIsMissing ==
    (Done("UpdateModelImage") /\ Succeeded) =>
        /\ ModelsById(pre, op.modelID) # <<>>
        /\ Len(NamedVersions(registry)) = 1
        /\ Len(NamedArtifacts(registry)) = 1
        /\ (NamedVersions(pre) # <<>> =>
               (~Issued("CreateModelVersion") /\ Len(registry.versions) = Len(pre.versions)))
        /\ (NamedVersions(pre) = <<>> => Len(registry.versions) = Len(pre.versions) + 1)
        /\ (NamedArtifacts(pre) # <<>> =>
               (~Issued("CreateModelArtifact") /\ registry.artifacts = pre.artifacts))
        /\ (NamedArtifacts(pre) = <<>> => Len(registry.artifacts) = Len(pre.artifacts) + 1)

\* The version existed, its artifact did not: only the artifact was created.
C3_Witness ==
    /\ Done("UpdateModelImage") /\ Succeeded
    /\ NamedVersions(pre) # <<>>
    /\ NamedArtifacts(pre) = <<>>
    /\ Len(NamedArtifacts(registry)) = 1
    /\ Len(registry.versions) = Len(pre.versions)

EdgeCompatible(v) ==
    /\ "edgeCompatible" \in DOMAIN v.CustomProperties
    /\ v.CustomProperties["edgeCompatible"] = ToMetadataValue(Str("true"))

\* C4: whenever UpdateModelImage returns without error, with nil parameters
\* or not, the version it names is marked edgeCompatible = "true".
C4_UpdateMarksEdgeCompatible ==
    (Done("UpdateModelImage") /\ Succeeded) =>
        (NamedVersions(registry) # <<>> /\ EdgeCompatible(NamedVersions(registry)[1]))

C5_WitnessNil ==
    /\ Done("UpdateModelImage") /\ Succeeded
    /\ op.parameters.nil
    /\ ret.params = Map(Required("creds", "data"))

\* C6: whenever BuildModelImage issues the pipeline-run creation call, the
\* registry holds the model, the named version and an artifact of that
\* version, and the version is marked edgeCompatible = "true".
C6_BuildOnlyWhenPreconditionsHold ==
    (Done("BuildModelImage") /\ Issued("PipelineRuns.Create")) =>
        /\ ModelsById(registry, op.modelID) # <<>>
        /\ NamedVersions(registry) # <<>>
        /\ ArtifactsOf(registry, NamedVersions(registry)[1].Id) # <<>>
        /\ EdgeCompatible(NamedVersions(registry)[1])

\* The parameters the run is built from: the ones given, or, for
\* BuildModelImage with nil parameters, the stored properties of the version.
EffectiveParameters ==
    IF op.name = "BuildModelImage" /\ op.parameters.nil
    THEN IF NamedVersions(pre) = <<>> THEN NilMap
         ELSE LET stored == NamedVersions(pre)[1].CustomProperties
              IN Map([k \in DOMAIN stored |-> FromMetadataValue(stored[k])])
    ELSE op.parameters

TektonValue(v) == IF v.kind = "string" THEN StringParam(v.val[1]) ELSE ArrayParam(v.val)

\* C7: the run BuildModelImage submits carries model-name = the name of the
\* model of that ID and model-version = the version asked for, followed by
\* exactly the parameters given, or, when none are given, exactly the stored
\* custom properties of the version.
C7_BuildParametersChoice ==
    (Done("BuildModelImage") /\ submitted # <<>>) =>
        /\ Len(submitted) = 1
        /\ submitted[1].Object.Params.lead =
              <<Param("model-name", StringParam(NamedModel(pre).Name)),
                Param("model-version", StringParam(op.modelVersion))>>
        /\ submitted[1].Object.Params.rest =
              {Param(k, TektonValue(EffectiveParameters.kv[k])) : k \in Keys(EffectiveParameters)}

\* Parameters were given that differ from the stored ones, and the run has them.
C7_Witness ==
    /\ Done("BuildModelImage") /\ Succeeded
    /\ ~op.parameters.nil
    /\ NamedVersions(pre)[1].CustomProperties = EdgeProperties
    /\ Param(S3, StringParam("creds2")) \in submitted[1].Object.Params.rest
    /\ Cardinality(submitted[1].Object.Params.rest) = 2

\* No parameters were given and the run has the stored properties.
C7_WitnessStored ==
    /\ Done("BuildModelImage") /\ Succeeded
    /\ op.parameters.nil
    /\ Param("edgeCompatible", StringParam("true")) \in submitted[1].Object.Params.rest
    /\ Param(S3, StringParam("creds")) \in submitted[1].Object.Params.rest

\* C8: AddNewModelWithImage called (with a parameters map) with an empty
\* model name, description, version or URI returns an error and a nil
\* ModelImage, calls nothing and registers nothing.
C8_AddRequiresAllFour ==
    (Done("AddNewModelWithImage") /\ ~op.parameters.nil
     /\ (op.modelName = "" \/ op.modelDescription = "" \/ op.modelVersion = "" \/ op.uri = ""))
        => (ReturnedError /\ ret.image.nil /\ calls = <<>> /\ registry = pre)

ValidParameters(p) ==
    /\ S3 \in Keys(p) /\ p.kv[S3].kind = "string"
    /\ TD \in Keys(p) /\ p.kv[TD].kind = "string"
    /\ \A k \in Keys(p) : p.kv[k].kind \in {"string", "[]string", "[]interface{}"}

Workspace(run, name) == SelectSeq(run.Workspaces, LAMBDA w : w.Name = name)

\* C9: CreatePipelineRun, directly or through BuildModelImage, issues the
\* creation call only for parameters that hold s3SecretName and
\* testDataConfigMapName as strings and otherwise strings or lists of
\* strings; for other parameters it returns an error and creates nothing; a
\* run that is created binds workspace s3-secret to the s3SecretName value
\* and workspace test-data to the testDataConfigMapName value.
C9_RunOnlyForValidParameters ==
    (op.name \in {"CreatePipelineRun", "BuildModelImage"}) =>
        /\ Issued("PipelineRuns.Create") => ValidParameters(EffectiveParameters)
        /\ ~ValidParameters(EffectiveParameters) =>
              (ReturnedError /\ ret.run.nil /\ submitted = <<>> /\ ~Issued("PipelineRuns.Create"))
        /\ \A i \in DOMAIN submitted :
              /\ Workspace(submitted[i].Object, "s3-secret") =
                    <<[Name |-> "s3-secret", Source |-> "Secret",
                       Ref |-> EffectiveParameters.kv[S3].val[1]]>>
              /\ Workspace(submitted[i].Object, "test-data") =
                    <<[Name |-> "test-data", Source |-> "ConfigMap",
                       Ref |-> EffectiveParameters.kv[TD].val[1]]>>

\* A run was created from parameters that hold a list next to the two names.
C9_Witness ==
    /\ Done("CreatePipelineRun") /\ Succeeded
    /\ "tags" \in Keys(op.parameters)
    /\ Len(submitted) = 1
    /\ Workspace(submitted[1].Object, "s3-secret")[1].Ref = "creds"

\* testDataConfigMapName was given as a list: an error, and nothing created.
C9_WitnessRejected ==
    /\ Done("CreatePipelineRun") /\ ReturnedError
    /\ TD \in Keys(op.parameters) /\ op.parameters.kv[TD].kind = "[]string"
    /\ submitted = <<>>

Max(a, b) == IF a >= b THEN a ELSE b

\* C10: a successful GetModelImages returns, for every version of every
\* model, one ModelImage per artifact of the version, with that artifact's
\* URI, or one ModelImage with an empty URI when the version has no artifact,
\* and nothing else; each carries the model's ID, name and description, the
\* version's name and the version's custom properties.
C10_ImagesPerVersion ==
    (Done("GetModelImages") /\ Succeeded) =>
        LET imgs == ret.images.items
            Of(m, v) == {i \in DOMAIN imgs : imgs[i].ModelID = m.Id /\ imgs[i].Version = v.Name}
            Slots == {<<j, k>> \in (DOMAIN registry.versions) \X (1..(MaxArtifacts + 1)) :
                        k <= Max(1, Len(ArtifactsOf(registry, registry.versions[j].Id)))}
        IN /\ ~ret.images.nil
           /\ Len(imgs) = Cardinality(Slots)
           /\ \A x \in DOMAIN registry.models :
                LET m == registry.models[x]
                    versions == VersionsOf(registry, m.Id)
                IN /\ (versions = <<>> => \A i \in DOMAIN imgs : imgs[i].ModelID # m.Id)
                   /\ \A y \in DOMAIN versions :
                        LET v == versions[y]
                            arts == ArtifactsOf(registry, v.Id)
                        IN /\ Cardinality(Of(m, v)) = Max(1, Len(arts))
                           /\ \A i \in Of(m, v) :
                                /\ ~imgs[i].nil
                                /\ imgs[i].Name = m.Name
                                /\ imgs[i].Description = m.Description
                                /\ imgs[i].BuildParams =
                                      Map([k \in DOMAIN v.CustomProperties |->
                                              FromMetadataValue(v.CustomProperties[k])])
                                /\ (arts = <<>> => imgs[i].URI = "")
                           /\ \A a \in DOMAIN arts :
                                Cardinality({i \in Of(m, v) : imgs[i].URI = arts[a].Uri})
                                    = Cardinality({b \in DOMAIN arts : arts[b].Uri = arts[a].Uri})
           /\ \A i \in DOMAIN imgs :
                \E x \in DOMAIN registry.models :
                    /\ imgs[i].ModelID = registry.models[x].Id
                    /\ \E y \in DOMAIN registry.versions :
                          /\ registry.versions[y].RegisteredModelId = imgs[i].ModelID
                          /\ registry.versions[y].Name = imgs[i].Version

\* Two models, one version without artifact and one with: one image each.
C10_Witness ==
    /\ Done("GetModelImages") /\ Succeeded
    /\ Len(registry.models) = 2
    /\ \E j \in DOMAIN registry.versions : ArtifactsOf(registry, registry.versions[j].Id) = <<>>
    /\ \E i, j \in DOMAIN ret.images.items :
          ret.images.items[i].URI = "" /\ ret.images.items[j].URI # ""

\* One version with two artifacts: two images.
C10_WitnessTwoArtifacts ==
    /\ Done("GetModelImages") /\ Succeeded
    /\ Len(registry.versions) = 1
    /\ Len(ret.images.items) = 2
    /\ ret.images.items[1].URI # ret.images.items[2].URI


\* C11: every operation ends by handing back a result or an error value; none
\* ends in a panic, whatever its arguments, a nil parameters map and a
\* kubeConfig from which no client configuration can be built included.
C11_NeverAborts ==
    op.name # "none" => ~ret.panicked

====
